---- MODULE Spec2Model ----
(***************************************************************************)
(* A model of the document-processing pipeline of the ai-service backend:  *)
(* app/api/routes/documents.py (the upload orchestrator and the router),   *)
(* app/services/storage.py, app/services/pdf_extractor.py,                 *)
(* app/services/ai_processor.py and app/core/config.py.                    *)
(*                                                                         *)
(* Conventions.  A Python str is a sequence of one-character strings (a    *)
(* str(uuid) is a single opaque element).  An Optional value is a sequence *)
(* of length at most one: <<>> is None, <<v>> is v.                        *)
(***************************************************************************)
EXTENDS Integers, Sequences, FiniteSets, TLC

VARIABLES
    GOOGLE_API_KEY,        \* settings.GOOGLE_API_KEY: Optional credential
    ai_processor_service,  \* the module-level singleton: "None" or "AIProcessorService"
    bucket,                \* the object store's bucket: object name -> stored bytes
    stage,                 \* per request: position of the handler in the pipeline
    filename,              \* per request: file.filename as the handler saw it
    file_content,          \* per request: Optional bytes read from the upload
    object_name,           \* per request: Optional name under which the upload was stored
    extracted_text,        \* per request: Optional text returned by the extractor
    caught,                \* per request: Optional exception caught by the handler
    response,              \* per request: Optional HTTP response sent to the caller
    calls,                 \* per request: calls made to the object store and the LLM,
                           \* and response handles obtained from and given back to the store
    answers,               \* per request: what the store, the fetch and the LLM answered
    ai_result,             \* per request: Optional result process_content returned
    buckets,               \* the names of the buckets the object store holds
    ensure_log,            \* bucket check: the calls of _ensure_bucket_exists, with outcomes
    inner,                 \* process_content check: the inner content of the completion
    fence,                 \* process_content check: the fence wrapped around it
    pad,                   \* process_content check: the whitespace around fences and content
    ai_response,           \* process_content check: Optional AIProcessingResponse
    http_log               \* router check: the requests dispatched, with their responses
                           \* and what the store answered to the probe of health_check

pipelineVars == <<GOOGLE_API_KEY, ai_processor_service, bucket, stage, filename,
                  file_content, object_name, extracted_text, caught, response, calls,
                  answers, ai_result>>
bucketVars == <<buckets, ensure_log>>
cleanVars == <<inner, fence, pad, ai_response>>
routeVars == <<http_log>>
vars == <<pipelineVars, cleanVars, routeVars, bucketVars>>

None == <<>>
Some(v) == <<v>>

----------------------------------------------------------------------------
(* Python str operations, as the code uses them *)

Whitespace == {" ", "\n", "\t"}

RECURSIVE lstrip(_)
lstrip(s) ==
    IF s # <<>> /\ Head(s) \in Whitespace THEN lstrip(Tail(s)) ELSE s

RECURSIVE rstrip(_)
rstrip(s) ==
    IF s # <<>> /\ s[Len(s)] \in Whitespace THEN rstrip(SubSeq(s, 1, Len(s) - 1)) ELSE s

strip(s) == rstrip(lstrip(s))

startswith(s, prefix) ==
    Len(s) >= Len(prefix) /\ SubSeq(s, 1, Len(prefix)) = prefix

endswith(s, suffix) ==
    Len(s) >= Len(suffix) /\ SubSeq(s, Len(s) - Len(suffix) + 1, Len(s)) = suffix

DropPrefix(s, n) == SubSeq(s, n + 1, Len(s))
DropSuffix(s, n) == SubSeq(s, 1, Len(s) - n)
Prefix(s, n) == SubSeq(s, 1, IF Len(s) < n THEN Len(s) ELSE n)

LowerChar(c) ==
    CASE c = "A" -> "a" [] c = "P" -> "p" [] c = "D" -> "d" [] c = "F" -> "f"
      [] OTHER -> c

lower(s) == [i \in 1..Len(s) |-> LowerChar(s[i])]

\* s.split(sep)[-1]: what follows the last occurrence of sep (all of s without one)
RECURSIVE SplitLast(_, _)
SplitLast(s, sep) ==
    IF \E i \in 1..Len(s) : s[i] = sep
    THEN SplitLast(SubSeq(s, (CHOOSE i \in 1..Len(s) : s[i] = sep) + 1, Len(s)), sep)
    ELSE s

\* s.split(sep)[0]: what precedes the first occurrence of sep (all of s without one)
SplitFirst(s, sep) ==
    IF \E i \in 1..Len(s) : s[i] = sep
    THEN SubSeq(s, 1, (CHOOSE i \in 1..Len(s) : s[i] = sep /\ \A j \in 1..(i-1) : s[j] # sep) - 1)
    ELSE s

RECURSIVE Join(_, _)
Join(sep, parts) ==
    IF parts = <<>> THEN <<>>
    ELSE IF Len(parts) = 1 THEN parts[1]
    ELSE parts[1] \o sep \o Join(sep, Tail(parts))

----------------------------------------------------------------------------
(* app/core/config.py *)

MINIO_BUCKET_NAME == "pdfs"
MAX_UPLOAD_SIZE == 10 * 1024 * 1024
ALLOWED_EXTENSIONS == << <<"p", "d", "f">> >>
AI_MODEL_NAME == "gemini-2.0-flash"

----------------------------------------------------------------------------
(* Exceptions and the response model *)

Exc(type, msg) == [type |-> type, msg |-> msg]

\* fastapi.HTTPException(status_code, detail): str(detail) is what handlers report
HTTPException(status_code, detail) ==
    [type |-> "HTTPException", status_code |-> status_code, msg |-> detail]

\* app.models.ai.AIProcessingResponse, the single outbound result shape
AIProcessingResponse(document_id, status, ai_structured_output, model_used, error_message) ==
    [document_id |-> document_id, status |-> status,
     ai_structured_output |-> ai_structured_output,
     model_used |-> model_used, error_message |-> error_message]

\* what FastAPI sends for a handler that returned (status_code=200 of the route)
Returned(result) == [status_code |-> 200, body |-> Some(result)]
\* what FastAPI sends for a handler an exception escaped from
Unhandled == [status_code |-> 500, body |-> None]

----------------------------------------------------------------------------
(* Requests and uuid.uuid4 *)

Reqs == {"r1", "r2"}

\* uuid.uuid4() returning one value to every call of store_file
uuid4_SameObjectName(r, site) ==
    CASE site = "object" -> "uuid-2"
      [] r = "r1" /\ site = "temp" -> "uuid-1"
      [] r = "r2" /\ site = "temp" -> "uuid-3"

\* uuid.uuid4(): a value no other call returns.  site is the call site:
\* "temp" (documents.py, temp_document_id) or "object" (storage.py, object name)
uuid4(r, site) ==
    CASE r = "r1" /\ site = "temp" -> "uuid-1"
      [] r = "r1" /\ site = "object" -> "uuid-2"
      [] r = "r2" /\ site = "temp" -> "uuid-3"
      [] r = "r2" /\ site = "object" -> "uuid-4"

UuidStrings == {uuid4(r, site) : r \in Reqs, site \in {"temp", "object"}}

\* uuid.UUID(text): Optional uuid, None standing for ValueError
UUID(text) == IF Len(text) = 1 /\ text[1] \in UuidStrings THEN Some(text[1]) ELSE None

\* os.path.basename(path)
basename(path) == SplitLast(path, "/")

----------------------------------------------------------------------------
(* app/services/storage.py *)

StoreFaults == {"none", "ReadError", "MinioException", "OtherException"}

\* client.bucket_exists(name), the store holding the buckets bs
bucket_exists(bs, name) == name \in bs

\* client.make_bucket(name): the store refuses a name it already holds
make_bucket(bs, name) ==
    IF name \in bs
      THEN [raised |-> Some(Exc("S3Error", <<"BucketAlreadyOwnedByYou">>)), buckets |-> bs]
    ELSE [raised |-> None, buckets |-> bs \cup {name}]

\* what the store does to a call of _ensure_bucket_exists: it answers, or the
\* first request to it fails with an S3Error or with another exception
EnsureFaults == {"none", "S3Error", "OtherException"}

\* _ensure_bucket_exists without the test of bucket_exists
ensure_bucket_exists_NoCheck(bs, fault) ==
    IF fault = "S3Error"
      THEN [raised |-> Some(HTTPException(500, <<"Storage service error: ">> \o <<fault>>)),
            buckets |-> bs]
    ELSE IF fault = "OtherException"
      THEN [raised |-> Some(Exc("Exception", <<fault>>)), buckets |-> bs]
    ELSE LET made == make_bucket(bs, MINIO_BUCKET_NAME)
         IN  IF made.raised # None
               THEN [raised |-> Some(HTTPException(500, <<"Storage service error: ">>
                                                        \o made.raised[1].msg)),
                     buckets |-> bs]
             ELSE [raised |-> None, buckets |-> made.buckets]

\* MinioStorageService._ensure_bucket_exists, the store holding the buckets bs
ensure_bucket_exists(bs, fault) ==
    IF fault = "S3Error"
      THEN [raised |-> Some(HTTPException(500, <<"Storage service error: ">> \o <<fault>>)),
            buckets |-> bs]
    ELSE IF fault = "OtherException"
      THEN [raised |-> Some(Exc("Exception", <<fault>>)), buckets |-> bs]
    ELSE IF ~bucket_exists(bs, MINIO_BUCKET_NAME)
      THEN LET made == make_bucket(bs, MINIO_BUCKET_NAME)
           IN  IF made.raised # None
                 THEN [raised |-> Some(HTTPException(500, <<"Storage service error: ">>
                                                          \o made.raised[1].msg)),
                       buckets |-> bs]
               ELSE [raised |-> None, buckets |-> made.buckets]
    ELSE [raised |-> None, buckets |-> bs]

FaultMsg(fault) == <<fault>>

\* store_file naming the object after the uploaded file instead of a fresh uuid
store_file_NamedByFilename(r, fname, content, fault) ==
    [name |-> fname[1],
     put_called |-> fault # "ReadError",
     written |-> fault = "none",
     storage_path |-> IF fault = "none" THEN Some(<<MINIO_BUCKET_NAME, "/">> \o fname[1])
                      ELSE None,
     raised |-> IF fault = "none" THEN None ELSE Some(Exc("Exception", FaultMsg(fault)))]

\* MinioStorageService.store_file(file), the store answering with `fault`.
\* put_called: client.put_object was called; written: it stored the object
store_file(r, fname, content, fault) ==
    LET file_extension == IF fname # None /\ fname[1] # <<>>
                          THEN SplitLast(fname[1], ".") ELSE <<"p", "d", "f">>
        name == <<uuid4(r, "object")>> \o <<".">> \o file_extension
        storage_path == <<MINIO_BUCKET_NAME, "/">> \o name
    IN  [name |-> name,
         put_called |-> fault # "ReadError",
         written |-> fault = "none",
         storage_path |-> IF fault = "none" THEN Some(storage_path) ELSE None,
         raised |->
            CASE fault = "none" -> None
              [] fault = "ReadError" -> Some(Exc("Exception", FaultMsg(fault)))
              [] fault = "MinioException" ->
                    Some(HTTPException(500, <<"Storage service error: ">> \o FaultMsg(fault)))
              [] fault = "OtherException" -> Some(Exc("Exception", FaultMsg(fault)))]

----------------------------------------------------------------------------
(* app/services/pdf_extractor.py *)

\* A byte string holding a document: size is its len(), and kind, encryption
\* and pages are what pypdf reads from it: kind is "pdf" or "corrupt",
\* encryption is "none", "empty_password", "password" or "unsupported", and a
\* page is an Optional text, None standing for a page whose extract_text()
\* raises
Bytes(size, kind, encryption, pages) ==
    [size |-> size, kind |-> kind, encryption |-> encryption, pages |-> pages]

FetchFaults == {"none", "NoSuchKey", "S3Error", "MinioException", "OtherException", "ReadError"}

\* the page loop: strip and keep each page's text if the text is truthy
RECURSIVE PageTexts(_)
PageTexts(pages) ==
    IF pages = <<>> THEN <<>>
    ELSE LET page == Head(pages)
         IN  (IF page # None /\ page[1] # <<>> THEN <<strip(page[1])>> ELSE <<>>)
             \o PageTexts(Tail(pages))

\* the finally clause of the fetch without its body: the handle is left open
ReleaseHandle_Never(handle) == FALSE

\* the finally clause of the fetch: `if response:` closes the handle and
\* releases its connection; handle is the Optional response of get_object
ReleaseHandle(handle) == handle # None

\* PdfExtractorService.extract_text_from_pdf(object_name), the store holding
\* `store` and answering the fetch with `fault`.  opened: get_object returned
\* a response handle; closed: the finally clause closed and released it
extract_text_from_pdf(name, store, fault) ==
    LET pdf_data == store[name]
        extracted_texts == PageTexts(pdf_data.pages)
        response_of(opened) == IF opened THEN Some("response") ELSE None
        raise(opened, exc) ==
            [raised |-> Some(exc), text |-> None, opened |-> opened,
             closed |-> ReleaseHandle(response_of(opened))]
        PdfExtractionError(msg) == Exc("PdfExtractionError", msg)
    IN  \* 1. fetch
        IF fault = "NoSuchKey" \/ name \notin DOMAIN store
          THEN raise(FALSE, Exc("PdfNotFoundError", <<"PDF object ">> \o name \o <<" not found in bucket">>))
        ELSE IF fault = "S3Error"
          THEN raise(FALSE, HTTPException(500, <<"Storage error retrieving PDF: ">> \o FaultMsg(fault)))
        ELSE IF fault = "MinioException"
          THEN raise(FALSE, HTTPException(503, <<"Storage service connection error: ">> \o FaultMsg(fault)))
        ELSE IF fault = "OtherException"
          THEN raise(FALSE, HTTPException(500, <<"Unexpected error retrieving PDF file.">>))
        ELSE IF fault = "ReadError"
          THEN raise(TRUE, HTTPException(500, <<"Unexpected error retrieving PDF file.">>))
        ELSE IF pdf_data.size = 0
          THEN raise(TRUE, PdfExtractionError(<<"Failed to retrieve valid data for PDF">>))
        \* 3. pypdf
        ELSE IF pdf_data.kind = "corrupt"
          THEN raise(TRUE, PdfExtractionError(<<"Failed to read PDF. It might be corrupted">>))
        ELSE IF pdf_data.encryption = "password"
          THEN raise(TRUE, PdfExtractionError(<<"Unexpected error processing PDF: ",
                                                "PDF is encrypted and password protected.">>))
        ELSE IF pdf_data.encryption = "unsupported"
          THEN raise(TRUE, PdfExtractionError(<<"Unexpected error processing PDF: ",
                                                "PDF uses unsupported encryption.">>))
        \* 4. combine
        ELSE [raised |-> None,
              text |-> Some(IF extracted_texts = <<>> THEN <<>>
                            ELSE Join(<<"\n", "\n">>, extracted_texts)),
              opened |-> TRUE, closed |-> ReleaseHandle(response_of(TRUE))]

----------------------------------------------------------------------------
(* app/services/ai_processor.py *)

\* the singleton constructed without the check of the credential
AIProcessorServiceSingleton_NoKeyCheck(key, ctor_ok) ==
    IF ~ctor_ok THEN "None" ELSE "AIProcessorService"

\* AIProcessorService.__init__ followed by the module's singleton assignment:
\* ctor_ok is whether ChatGoogleGenerativeAI(...) could be constructed
AIProcessorServiceSingleton(key, ctor_ok) ==
    IF key = None \/ key[1] = <<>> THEN "None"     \* AIConfigurationError: key not set
    ELSE IF ~ctor_ok THEN "None"                   \* AIConfigurationError: model not configured
    ELSE "AIProcessorService"

\* the backtick character (U+0060), which a TLA+ string cannot hold
BACKTICK == "U+0060"
FENCE == <<BACKTICK, BACKTICK, BACKTICK>>
FENCE_JSON == FENCE \o <<"j", "s", "o", "n">>

\* _clean_json_string without the removal of the trailing fence
clean_json_string_NoTrailingFence(raw_string) ==
    LET cleaned0 == strip(raw_string)
    IN  IF startswith(cleaned0, FENCE_JSON)
          THEN strip(DropPrefix(cleaned0, Len(FENCE_JSON)))
        ELSE IF startswith(cleaned0, FENCE)
          THEN strip(DropPrefix(cleaned0, Len(FENCE)))
        ELSE cleaned0

\* AIProcessorService._clean_json_string
clean_json_string(raw_string) ==
    LET cleaned0 == strip(raw_string)
        cleaned1 == IF startswith(cleaned0, FENCE_JSON)
                      THEN strip(DropPrefix(cleaned0, Len(FENCE_JSON)))
                    ELSE IF startswith(cleaned0, FENCE)
                      THEN strip(DropPrefix(cleaned0, Len(FENCE)))
                    ELSE cleaned0
    IN  IF endswith(cleaned1, FENCE) THEN strip(DropSuffix(cleaned1, Len(FENCE)))
        ELSE cleaned1

\* json.loads on texts over the alphabet of the model: a number is a run of the
\* digit "1", an array is "[" "]" around at most one value (the alphabet has
\* no comma), whitespace may surround every token; everything else is a
\* JSONDecodeError.  The value is its text without whitespace.
JsonWhitespace == {" ", "\n", "\t"}

RECURSIVE SkipWs(_, _)
SkipWs(s, i) == IF i <= Len(s) /\ s[i] \in JsonWhitespace THEN SkipWs(s, i + 1) ELSE i

RECURSIVE SkipDigits(_, _)
SkipDigits(s, i) == IF i <= Len(s) /\ s[i] = "1" THEN SkipDigits(s, i + 1) ELSE i

JsonFail == [ok |-> FALSE, val |-> <<>>, next |-> 0]

RECURSIVE ParseValue(_, _)
ParseValue(s, i) ==
    IF i > Len(s) THEN JsonFail
    ELSE IF s[i] = "1"
      THEN [ok |-> TRUE, val |-> SubSeq(s, i, SkipDigits(s, i) - 1), next |-> SkipDigits(s, i)]
    ELSE IF s[i] = "["
      THEN LET k == SkipWs(s, i + 1)
           IN  IF k <= Len(s) /\ s[k] = "]"
                 THEN [ok |-> TRUE, val |-> <<"[", "]">>, next |-> k + 1]
               ELSE LET e == ParseValue(s, k)
                        m == SkipWs(s, e.next)
                    IN  IF e.ok /\ m <= Len(s) /\ s[m] = "]"
                          THEN [ok |-> TRUE, val |-> <<"[">> \o e.val \o <<"]">>, next |-> m + 1]
                        ELSE JsonFail
    ELSE JsonFail

json_loads(s) ==
    LET v == ParseValue(s, SkipWs(s, 1))
    IN  IF v.ok /\ SkipWs(s, v.next) = Len(s) + 1
          THEN [ok |-> TRUE, val |-> v.val]
        ELSE [ok |-> FALSE, val |-> <<>>]

ERROR_PREFIX_LEN == 100

\* the message of the JSONDecodeError clause, with the snippet the log line takes
ParseErrorMessage_LogSnippet(cleaned_output) ==
    <<"AI model response was not valid JSON. Parse Error: ", "JSONDecodeError",
      ". Raw (cleaned) start: ">> \o Prefix(cleaned_output, 500) \o <<"...">>

\* the message of the JSONDecodeError clause: the parse error and cleaned_output[:100]
ParseErrorMessage(cleaned_output) ==
    <<"AI model response was not valid JSON. Parse Error: ", "JSONDecodeError",
      ". Raw (cleaned) start: ">> \o Prefix(cleaned_output, ERROR_PREFIX_LEN) \o <<"...">>

\* process_content keeping the text that failed to parse as the structured output
process_content_KeepsRawOutput(document_id, llm) ==
    IF llm.raised # None
      THEN AIProcessingResponse(document_id, "error", None, AI_MODEL_NAME,
              Some(<<"Failed to get response from AI model: ">> \o llm.raised[1].msg))
    ELSE LET raw_ai_output == strip(llm.content)
             cleaned_output == clean_json_string(raw_ai_output)
             parsed == json_loads(cleaned_output)
         IN  IF parsed.ok
               THEN AIProcessingResponse(document_id, "success", Some(parsed.val),
                                         AI_MODEL_NAME, None)
             ELSE AIProcessingResponse(document_id, "error", Some(cleaned_output),
                                       AI_MODEL_NAME, Some(ParseErrorMessage(cleaned_output)))

\* AIProcessorService.process_content(request_data), the LLM answering with
\* llm: [raised |-> Optional exception, content |-> completion text]
process_content(document_id, llm) ==
    IF llm.raised # None
      THEN AIProcessingResponse(document_id, "error", None, AI_MODEL_NAME,
              Some(<<"Failed to get response from AI model: ">> \o llm.raised[1].msg))
    ELSE LET raw_ai_output == strip(llm.content)
             cleaned_output == clean_json_string(raw_ai_output)
             parsed == json_loads(cleaned_output)
         IN  IF parsed.ok
               THEN AIProcessingResponse(document_id, "success", Some(parsed.val),
                                         AI_MODEL_NAME, None)
             ELSE AIProcessingResponse(document_id, "error", None, AI_MODEL_NAME,
                                       Some(ParseErrorMessage(cleaned_output)))

----------------------------------------------------------------------------
(* The uploads and the backends' answers the pipeline is run on *)

Filenames ==
    { None, Some(<<>>),
      Some(<<"a", ".", "p", "d", "f">>), Some(<<"A", ".", "P", "D", "F">>),
      Some(<<"a", ".", "t", "x", "t">>), Some(<<"a", "p", "d", "f">>),
      Some(<<"a", ".", "p", "d", "f", ".", "t", "x", "t">>) }

TextA == <<"A">>
TextB == <<" ", "B", "\n">>
Blank == <<" ">>

Documents ==
    { Bytes(0, "corrupt", "none", <<>>),
      Bytes(1, "corrupt", "none", <<>>),
      Bytes(1, "pdf", "password", <<Some(TextA)>>),
      Bytes(1, "pdf", "unsupported", <<Some(TextA)>>),
      Bytes(1, "pdf", "empty_password", <<Some(TextA)>>),
      Bytes(1, "pdf", "none", <<>>),
      Bytes(1, "pdf", "none", <<None, Some(<<>>)>>),
      Bytes(1, "pdf", "none", <<Some(Blank)>>),
      Bytes(1, "pdf", "none", <<Some(Blank), Some(Blank)>>),
      Bytes(1, "pdf", "none", <<Some(TextA), None, Some(TextB)>>),
      Bytes(1, "pdf", "none", <<Some(TextA), Some(Blank), Some(TextB)>>),
      Bytes(MAX_UPLOAD_SIZE, "pdf", "none", <<Some(TextA)>>),
      Bytes(MAX_UPLOAD_SIZE + 1, "pdf", "none", <<Some(TextA)>>) }

\* await file.read(): the bytes of the upload, or an exception
ReadOutcomes ==
    {[raised |-> Some(Exc("Exception", <<"ReadError">>)), content |-> None]}
    \cup {[raised |-> None, content |-> Some(d)] : d \in Documents}

Completions ==
    { <<"[", "1", "]">>,
      FENCE_JSON \o <<"\n", "1", "1", "\n">> \o FENCE,
      <<"x">> }

\* self.llm.invoke(messages): a completion, or an exception
LLMOutcomes ==
    {[raised |-> Some(Exc("Exception", <<"LLMError">>)), content |-> <<>>]}
    \cup {[raised |-> None, content |-> c] : c \in Completions}

----------------------------------------------------------------------------
(* app/api/routes/documents.py: upload_document_and_process *)

Stages == {"START", "VALIDATED", "STORED", "EXTRACTED", "AI_PROCESSED", "DONE", "ERROR"}

\* an error result built without model_used
ErrorResult_NoModel(document_id, message) ==
    AIProcessingResponse(document_id, "error", None, "None", Some(message))

ErrorResult(document_id, message) ==
    AIProcessingResponse(document_id, "error", None, AI_MODEL_NAME, Some(message))

\* AllowedFileType with the suffix compared without its leading dot
AllowedFileType_NoDot(fname) ==
    /\ fname # None
    /\ fname[1] # <<>>
    /\ \E i \in 1..Len(ALLOWED_EXTENSIONS) :
          endswith(lower(fname[1]), ALLOWED_EXTENSIONS[i])

\* 1. Validate File Type: the negation of the condition of the early return
AllowedFileType(fname) ==
    /\ fname # None
    /\ fname[1] # <<>>
    /\ \E i \in 1..Len(ALLOWED_EXTENSIONS) :
          endswith(lower(fname[1]), <<".">> \o ALLOWED_EXTENSIONS[i])

\* step 2 without the size check
FileTooLarge_Never(file_size) == FALSE

\* FileTooLarge with >= for >
FileTooLarge_AtLimit(file_size) == file_size >= MAX_UPLOAD_SIZE

\* 2. Validate File Size: the condition of the early return
FileTooLarge(file_size) == file_size > MAX_UPLOAD_SIZE

\* the message of the early return of step 2 (MAX_UPLOAD_SIZE // (1024 * 1024) is 10)
FILE_TOO_LARGE_MESSAGE == <<"File size exceeds maximum allowed (10MB).">>

\* the id reported once the store step is over, taken to be the request's own id
final_document_id_Temp(r) == uuid4(r, "temp")

\* the id reported once the store step is over: the uuid parsed from the
\* object name, or the request's own id
final_document_id(r) ==
    LET actual_doc_uuid == IF object_name[r] = None THEN None
                           ELSE UUID(SplitFirst(object_name[r][1], "."))
    IN  IF actual_doc_uuid # None THEN actual_doc_uuid[1] ELSE uuid4(r, "temp")

\* the except clauses of step 3 without the catch-all clause
StoreExceptionResponse_NoCatchAll(r, e) ==
    IF e.type = "HTTPException"
      THEN Returned(ErrorResult(uuid4(r, "temp"), <<"Storage Error: ">> \o e.msg))
    ELSE Unhandled

\* the except clauses of step 3 reporting no detail
StoreExceptionResponse_NoDetail(r, e) ==
    IF e.type = "HTTPException"
      THEN Returned(ErrorResult(uuid4(r, "temp"), <<"Storage Error: ">>))
    ELSE Returned(ErrorResult(uuid4(r, "temp"), <<"Unexpected error storing document: ">>))

\* the except clauses of step 3
StoreExceptionResponse(r, e) ==
    IF e.type = "HTTPException"
      THEN Returned(ErrorResult(uuid4(r, "temp"), <<"Storage Error: ">> \o e.msg))
    ELSE Returned(ErrorResult(uuid4(r, "temp"),
                              <<"Unexpected error storing document: ">> \o e.msg))

\* the except clauses of step 4 with the catch-all clause alone
ExtractExceptionResponse_OneMessage(r, e) ==
    Returned(ErrorResult(final_document_id(r),
                         <<"Unexpected error during text extraction: ">> \o e.msg))

\* the except clauses of step 4
ExtractExceptionResponse(r, e) ==
    CASE e.type = "PdfNotFoundError" ->
            Returned(ErrorResult(final_document_id(r),
                                 <<"Failed to find stored PDF for extraction: ">> \o e.msg))
      [] e.type = "PdfExtractionError" ->
            Returned(ErrorResult(final_document_id(r),
                                 <<"Failed to extract text from PDF: ">> \o e.msg))
      [] e.type = "HTTPException" ->
            Returned(ErrorResult(final_document_id(r),
                                 <<"Storage error during extraction: ">> \o e.msg))
      [] OTHER ->
            Returned(ErrorResult(final_document_id(r),
                                 <<"Unexpected error during text extraction: ">> \o e.msg))

NO_TEXT_PAYLOAD ==
    <<"{", "message", ":", "No text content could be extracted from the PDF.", "}">>

NoTextResult(document_id) ==
    AIProcessingResponse(document_id, "success", Some(NO_TEXT_PAYLOAD), AI_MODEL_NAME,
                         Some(<<"PDF contained no extractable text content.">>))

\* the handler returns: one response, and the terminal stage its status names
Respond(r, resp) ==
    /\ response' = [response EXCEPT ![r] = Some(resp)]
    /\ stage' = [stage EXCEPT ![r] =
                    IF resp.body # None /\ resp.body[1].status = "success"
                    THEN "DONE" ELSE "ERROR"]

\* lines 74-103: the request id, the file type check, the read and the size check
Validate(r) ==
    /\ stage[r] = "START"
    /\ \E fname \in Filenames :
        /\ filename' = [filename EXCEPT ![r] = fname]
        /\ IF ~AllowedFileType(fname)
             THEN /\ Respond(r, Returned(ErrorResult(uuid4(r, "temp"),
                                <<"Invalid file type. Only pdf files are allowed.">>)))
                  /\ UNCHANGED <<file_content, caught>>
           ELSE \E rd \in ReadOutcomes :
                  IF rd.raised # None
                    THEN /\ Respond(r, Returned(ErrorResult(uuid4(r, "temp"),
                                       <<"Error reading uploaded file: ">> \o rd.raised[1].msg)))
                         /\ caught' = [caught EXCEPT ![r] = rd.raised]
                         /\ UNCHANGED file_content
                  ELSE /\ file_content' = [file_content EXCEPT ![r] = rd.content]
                       /\ UNCHANGED caught
                       /\ IF FileTooLarge(rd.content[1].size)
                            THEN Respond(r, Returned(ErrorResult(uuid4(r, "temp"),
                                                                 FILE_TOO_LARGE_MESSAGE)))
                          ELSE /\ stage' = [stage EXCEPT ![r] = "VALIDATED"]
                               /\ UNCHANGED response
    /\ UNCHANGED <<GOOGLE_API_KEY, ai_processor_service, bucket, object_name,
                   extracted_text, calls, answers, ai_result>>
    /\ UNCHANGED <<cleanVars, routeVars, bucketVars>>

\* client.put_object(bucket_name, object_name, data, ...): the bucket afterwards
put_object(store, name, data) ==
    [n \in DOMAIN store \cup {name} |-> IF n = name THEN data ELSE store[n]]

\* lines 105-135: 3. Store the file in MinIO
Store(r) ==
    /\ stage[r] = "VALIDATED"
    /\ \E fault \in StoreFaults :
        LET out == store_file(r, filename[r], file_content[r][1], fault)
        IN  /\ calls' = [calls EXCEPT ![r].put = @ + (IF out.put_called THEN 1 ELSE 0)]
            /\ bucket' = IF out.written
                           THEN put_object(bucket, out.name, file_content[r][1])
                         ELSE bucket
            /\ answers' = [answers EXCEPT ![r].store = Some(fault)]
            /\ caught' = [caught EXCEPT ![r] = out.raised]
            /\ IF out.raised = None
                 THEN /\ object_name' = [object_name EXCEPT ![r] =
                                            Some(basename(out.storage_path[1]))]
                      /\ stage' = [stage EXCEPT ![r] = "STORED"]
                      /\ UNCHANGED response
               ELSE /\ Respond(r, StoreExceptionResponse(r, out.raised[1]))
                    /\ UNCHANGED object_name
    /\ UNCHANGED <<GOOGLE_API_KEY, ai_processor_service, filename, file_content,
                   extracted_text, ai_result>>
    /\ UNCHANGED <<cleanVars, routeVars, bucketVars>>

\* lines 137-187: 4. Extract Text from PDF, and the early return for no text
Extract(r) ==
    /\ stage[r] = "STORED"
    /\ \E fault \in FetchFaults :
        LET out == extract_text_from_pdf(object_name[r][1], bucket, fault)
        IN  /\ calls' = [calls EXCEPT ![r].get = @ + 1,
                                       ![r].opened = @ + (IF out.opened THEN 1 ELSE 0),
                                       ![r].closed = @ + (IF out.closed THEN 1 ELSE 0)]
            /\ answers' = [answers EXCEPT ![r].fetch = Some(fault)]
            /\ caught' = [caught EXCEPT ![r] = out.raised]
            /\ IF out.raised # None
                 THEN /\ Respond(r, ExtractExceptionResponse(r, out.raised[1]))
                      /\ UNCHANGED extracted_text
               ELSE /\ extracted_text' = [extracted_text EXCEPT ![r] = out.text]
                    /\ IF out.text[1] = <<>>
                         THEN Respond(r, Returned(NoTextResult(final_document_id(r))))
                       ELSE /\ stage' = [stage EXCEPT ![r] = "EXTRACTED"]
                            /\ UNCHANGED response
    /\ UNCHANGED <<GOOGLE_API_KEY, ai_processor_service, bucket, filename, file_content,
                   object_name, ai_result>>
    /\ UNCHANGED <<cleanVars, routeVars, bucketVars>>

\* lines 189-205: 5. Process Content with AI, up to the return of process_content
AIProcess(r) ==
    /\ stage[r] = "EXTRACTED"
    /\ IF ai_processor_service = "None"
         THEN /\ Respond(r, Returned(ErrorResult(final_document_id(r),
                      <<"AI processing service is not available (configuration error?). Check server logs.">>)))
              /\ UNCHANGED <<calls, answers, ai_result>>
       ELSE \E llm \in LLMOutcomes :
              /\ calls' = [calls EXCEPT ![r].llm = @ + 1]
              /\ answers' = [answers EXCEPT ![r].llm = Some(llm)]
              /\ ai_result' = [ai_result EXCEPT ![r] =
                                  Some(process_content(final_document_id(r), llm))]
              /\ stage' = [stage EXCEPT ![r] = "AI_PROCESSED"]
              /\ UNCHANGED response
    /\ UNCHANGED <<GOOGLE_API_KEY, ai_processor_service, bucket, filename, file_content,
                   object_name, extracted_text, caught>>
    /\ UNCHANGED <<cleanVars, routeVars, bucketVars>>

\* line 206: return ai_response, the result of process_content as it is
Return(r) ==
    /\ stage[r] = "AI_PROCESSED"
    /\ Respond(r, Returned(ai_result[r][1]))
    /\ UNCHANGED <<GOOGLE_API_KEY, ai_processor_service, bucket, filename, file_content,
                   object_name, extracted_text, caught, calls, answers, ai_result>>
    /\ UNCHANGED <<cleanVars, routeVars, bucketVars>>

\* the values the variables of the other specifications keep
IdleClean == inner = <<>> /\ fence = "none" /\ pad = <<>> /\ ai_response = None
IdleRoute == http_log = <<>>
\* storage_service was constructed at import: the bucket is there
IdleBucket == buckets = {MINIO_BUCKET_NAME} /\ ensure_log = <<>>

\* settings.GOOGLE_API_KEY: unset, empty or set
ApiKeys == {None, Some(<<>>), Some(<<"k">>)}

\* the services constructed and no request handled yet
IdleRequests ==
    /\ GOOGLE_API_KEY \in ApiKeys
    /\ \E ctor_ok \in BOOLEAN :
          ai_processor_service = AIProcessorServiceSingleton(GOOGLE_API_KEY, ctor_ok)
    /\ stage = [r \in Reqs |-> "START"]
    /\ filename = [r \in Reqs |-> None]
    /\ file_content = [r \in Reqs |-> None]
    /\ object_name = [r \in Reqs |-> None]
    /\ extracted_text = [r \in Reqs |-> None]
    /\ caught = [r \in Reqs |-> None]
    /\ response = [r \in Reqs |-> None]
    /\ calls = [r \in Reqs |-> [put |-> 0, get |-> 0, llm |-> 0, opened |-> 0, closed |-> 0]]
    /\ answers = [r \in Reqs |-> [store |-> None, fetch |-> None, llm |-> None]]
    /\ ai_result = [r \in Reqs |-> None]

\* the pipeline before any request is handled: the bucket holds no object
IdlePipeline == IdleRequests /\ bucket = [n \in {} |-> None]

Init == IdlePipeline /\ IdleClean /\ IdleRoute /\ IdleBucket

Next == \E r \in Reqs : Validate(r) \/ Store(r) \/ Extract(r) \/ AIProcess(r) \/ Return(r)

Spec == Init /\ [][Next]_vars

----------------------------------------------------------------------------
(* Claims about the pipeline, checked under Spec *)

Terminal == {"DONE", "ERROR"}

IsErrorResponse(resp) ==
    /\ resp.status_code = 200
    /\ resp.body # None
    /\ resp.body[1].status = "error"

\* a file name the claim C1 calls disallowed: missing, or not ending, without
\* regard to case, with a dot and the extension pdf
DisallowedName(fname) ==
    \/ fname = None
    \/ ~endswith(lower(fname[1]), <<".", "p", "d", "f">>)

\* C1: a request whose file name is missing or does not end (case-insensitively)
\* with ".pdf" is answered with status=error as soon as it is handled, and makes
\* no call to the object store, neither put nor get.
C1_DisallowedTypeRejected ==
    \A r \in Reqs :
        (stage[r] # "START" /\ DisallowedName(filename[r]))
        => /\ response[r] # None
           /\ IsErrorResponse(response[r][1])
           /\ calls[r].put = 0
           /\ calls[r].get = 0

C1_Witness ==
    \E r \in Reqs :
        /\ filename[r] = Some(<<"a", "p", "d", "f">>)
        /\ stage[r] = "ERROR"
        /\ response[r] # None

\* C2: a request whose payload is longer than MAX_UPLOAD_SIZE is answered with
\* status=error and makes no call to the object store; a payload of exactly
\* MAX_UPLOAD_SIZE passes the size check (the request goes on to the store step).
C2_OversizeRejected ==
    \A r \in Reqs :
        file_content[r] # None
        => /\ file_content[r][1].size > MAX_UPLOAD_SIZE
              => /\ response[r] # None
                 /\ IsErrorResponse(response[r][1])
                 /\ calls[r].put = 0
                 /\ calls[r].get = 0
           /\ file_content[r][1].size = MAX_UPLOAD_SIZE
              => /\ stage[r] # "START"
                 /\ response[r] # None
                    => response[r][1].body[1].error_message # Some(FILE_TOO_LARGE_MESSAGE)

C2_Witness ==
    /\ \E r \in Reqs :
          /\ file_content[r] # None
          /\ file_content[r][1].size = MAX_UPLOAD_SIZE + 1
          /\ stage[r] = "ERROR"
    /\ \E r \in Reqs :
          /\ file_content[r] # None
          /\ file_content[r][1].size = MAX_UPLOAD_SIZE
          /\ stage[r] = "STORED"

\* no page of the document yields text: each page fails, or its text is empty
\* or blank
NoPageYieldsText(doc) ==
    \A i \in 1..Len(doc.pages) :
        doc.pages[i] = None \/ strip(doc.pages[i][1]) = <<>>

\* C3: when the extractor returned for a stored document none of whose pages
\* yields text, the request is answered with status=success and the fixed
\* no-text payload, and the LLM is never invoked for it.
C3_NoTextSkipsAI ==
    \A r \in Reqs :
        (extracted_text[r] # None /\ NoPageYieldsText(bucket[object_name[r][1]]))
        => /\ calls[r].llm = 0
           /\ response[r] # None
              => /\ response[r][1].status_code = 200
                 /\ response[r][1].body[1].status = "success"
                 /\ response[r][1].body[1].ai_structured_output = Some(NO_TEXT_PAYLOAD)

C3_Reached ==
    \E r \in Reqs :
        /\ extracted_text[r] # None
        /\ NoPageYieldsText(bucket[object_name[r][1]])
        /\ response[r] # None

StoreStepFailed(r) ==
    /\ stage[r] = "ERROR"
    /\ file_content[r] # None
    /\ file_content[r][1].size <= MAX_UPLOAD_SIZE
    /\ object_name[r] = None

C9_AtLeastStored ==
    /\ [][\A n \in DOMAIN bucket : n \in DOMAIN bucket' /\ bucket'[n] = bucket[n]]_vars
    /\ [](\A r \in Reqs :
            /\ calls[r].put <= 1
            /\ object_name[r] # None
               => /\ object_name[r][1] \in DOMAIN bucket
                  /\ bucket[object_name[r][1]] = file_content[r][1])
    /\ [](Cardinality(DOMAIN bucket) = Cardinality({r \in Reqs : object_name[r] # None}))

C9_Witness ==
    /\ \A r \in Reqs :
          /\ stage[r] = "ERROR"
          /\ object_name[r] # None
          /\ bucket[object_name[r][1]] = file_content[r][1]
    /\ \E r \in Reqs : calls[r].llm = 1
    /\ \E r \in Reqs : calls[r].llm = 0 /\ calls[r].get = 1

KeyAbsent == GOOGLE_API_KEY = None \/ GOOGLE_API_KEY[1] = <<>>

\* C10: when the LLM credential is absent at construction, the AI processor is
\* not constructed, no request ever contacts the LLM, and every request whose
\* extraction returned a non-empty text is answered with status=error.
C10_NoKeyNoAI ==
    KeyAbsent
    => /\ ai_processor_service = "None"
       /\ \A r \in Reqs :
            /\ calls[r].llm = 0
            /\ (extracted_text[r] # None /\ extracted_text[r][1] # <<>>)
               => /\ stage[r] \in {"EXTRACTED", "ERROR"}
                  /\ response[r] # None => IsErrorResponse(response[r][1])

C10_Witness ==
    /\ KeyAbsent
    /\ \E r \in Reqs :
          /\ extracted_text[r] # None
          /\ extracted_text[r][1] = <<"A", "\n", "\n", "B">>
          /\ stage[r] = "ERROR"

\* C11: every result sent for a request, at whichever stage the request ended
\* and whether its status is success or error, names the configured model in
\* model_used.
C11_ModelUsedAlways ==
    \A r \in Reqs :
        response[r] # None
        => /\ response[r][1].body # None
           /\ response[r][1].body[1].model_used = AI_MODEL_NAME

C11_Witness ==
    /\ \E r \in Reqs :
          /\ stage[r] = "DONE"
          /\ calls[r].llm = 1
          /\ response[r][1].body[1].model_used = AI_MODEL_NAME
    /\ \E r \in Reqs :
          /\ stage[r] = "ERROR"
          /\ calls[r].put = 0
          /\ response[r][1].body[1].model_used = AI_MODEL_NAME

\* C12: after every extraction step, however it ended, every response handle
\* the fetch obtained from the store has been closed and released: a request
\* has closed as many handles as it obtained, and it obtains at most one.
C12_HandleReleased ==
    \A r \in Reqs :
        /\ calls[r].closed = calls[r].opened
        /\ calls[r].opened <= calls[r].get

\* the handle was obtained and the read of it failed; the handle was obtained
\* and the document could not be parsed; the handle was obtained and the text
\* was returned
C12_Witness ==
    /\ \E r \in Reqs :
          /\ calls[r].opened = 1
          /\ calls[r].closed = 1
          /\ caught[r] # None
          /\ caught[r][1].type \in {"HTTPException", "PdfExtractionError"}
    /\ \E r \in Reqs :
          /\ calls[r].opened = 1
          /\ calls[r].closed = 1
          /\ extracted_text[r] # None

\* the texts of the pages that have one: a page whose extraction fails, or
\* whose text without its surrounding whitespace is empty, has none
RECURSIVE NonEmptyPageTexts(_)
NonEmptyPageTexts(pages) ==
    IF pages = <<>> THEN <<>>
    ELSE (IF Head(pages) # None /\ strip(Head(pages)[1]) # <<>>
          THEN <<strip(Head(pages)[1])>> ELSE <<>>)
         \o NonEmptyPageTexts(Tail(pages))

\* C13: the text the extractor returned for a stored document is the non-empty
\* page texts of the document, in page order, with "\n\n" between them and
\* nothing else: a failing or empty page adds neither text nor separator, and
\* the pages after it are still extracted.
C13_NonEmptyPagesJoined ==
    \A r \in Reqs :
        extracted_text[r] # None
        => extracted_text[r][1] =
              Join(<<"\n", "\n">>, NonEmptyPageTexts(bucket[object_name[r][1]].pages))

\* the cases of C13 the extractor follows: a failing page between two pages
\* with text
C13_Reached ==
    \E r \in Reqs :
        /\ extracted_text[r] = Some(<<"A", "\n", "\n", "B">>)
        /\ bucket[object_name[r][1]].pages = <<Some(TextA), None, Some(TextB)>>

\* the place of a stage in the order of the pipeline
Rank(s) ==
    CASE s = "START" -> 0 [] s = "VALIDATED" -> 1 [] s = "STORED" -> 2
      [] s = "EXTRACTED" -> 3 [] s = "AI_PROCESSED" -> 4 [] s = "DONE" -> 5
      [] s = "ERROR" -> 6

\* C17: a request changes stage only forward in the order START, VALIDATED,
\* STORED, EXTRACTED, AI_PROCESSED, DONE, or to ERROR, and never leaves DONE
\* or ERROR; put is called only at VALIDATED, for a file that passed the type
\* check and the size check; the fetch is made only at STORED, for an object a
\* put has written; the LLM is invoked only at EXTRACTED, after an extraction
\* that returned a non-empty text.
C17_StageOrder ==
    /\ [][\A r \in Reqs :
            /\ stage'[r] # stage[r]
               => /\ stage[r] \notin {"DONE", "ERROR"}
                  /\ stage'[r] = "ERROR" \/ Rank(stage'[r]) > Rank(stage[r])
            /\ calls'[r].put # calls[r].put => stage[r] = "VALIDATED"
            /\ calls'[r].get # calls[r].get => stage[r] = "STORED"
            /\ calls'[r].llm # calls[r].llm => stage[r] = "EXTRACTED"]_vars
    /\ [](\A r \in Reqs :
            /\ stage[r] \in Stages
            /\ calls[r].put > 0
               => /\ filename[r] # None
                  /\ endswith(lower(filename[r][1]), <<".", "p", "d", "f">>)
                  /\ file_content[r] # None
                  /\ file_content[r][1].size <= MAX_UPLOAD_SIZE
            /\ calls[r].get > 0
               => /\ calls[r].put = 1
                  /\ object_name[r] # None
                  /\ object_name[r][1] \in DOMAIN bucket
            /\ calls[r].llm > 0
               => /\ calls[r].get = 1
                  /\ extracted_text[r] # None
                  /\ extracted_text[r][1] # <<>>)

\* one request went through every stage to DONE while the other waits at
\* AI_PROCESSED
C17_Witness ==
    /\ \E r \in Reqs :
          /\ stage[r] = "DONE"
          /\ calls[r].put = 1 /\ calls[r].get = 1 /\ calls[r].llm = 1
    /\ \E r \in Reqs :
          /\ stage[r] = "AI_PROCESSED"
          /\ ai_result[r] # None
          /\ ai_result[r][1].status = "error"

\* the store step of request r succeeded
StoreSucceeded(r) == answers[r].store = Some("none")

\* C18: every result of a request whose store step succeeded reports as
\* document_id the uuid the name of the stored object begins with; the id the
\* request generated for itself is reported only when the store step did not
\* succeed, and no object is stored under it.
C18_DocumentIdOfStoredObject ==
    /\ \A r \in Reqs :
          LET results == (IF response[r] # None THEN {response[r][1].body[1]} ELSE {})
                         \cup (IF ai_result[r] # None THEN {ai_result[r][1]} ELSE {})
          IN  \A res \in results :
                /\ StoreSucceeded(r)
                   => /\ object_name[r] # None
                      /\ object_name[r][1] \in DOMAIN bucket
                      /\ res.document_id = Head(object_name[r][1])
                      /\ res.document_id = uuid4(r, "object")
                /\ res.document_id = uuid4(r, "temp") => ~StoreSucceeded(r)
    /\ \A n \in DOMAIN bucket : \A r \in Reqs : Head(n) # uuid4(r, "temp")

C18_Witness ==
    /\ \E r \in Reqs :
          /\ stage[r] = "DONE"
          /\ filename[r] = Some(<<"A", ".", "P", "D", "F">>)
          /\ response[r][1].body[1].document_id = uuid4(r, "object")
    /\ \E r \in Reqs :
          /\ stage[r] = "ERROR"
          /\ answers[r].store = Some("MinioException")
          /\ response[r][1].body[1].document_id = uuid4(r, "temp")

\* the extraction step of request r raised
ExtractionFailed(r) == answers[r].fetch # None /\ caught[r] # None

\* the condition the claim C19 names for an exception of the extractor
Condition(e) ==
    CASE e.type = "PdfNotFoundError" -> "not-found"
      [] e.type = "PdfExtractionError" -> "extraction-error"
      [] e.type = "HTTPException" /\ e.status_code = 503 -> "service-unavailable"
      [] OTHER -> "generic-error"

\* the three kinds the orchestrator tells apart
Kind(e) ==
    IF Condition(e) \in {"not-found", "extraction-error"} THEN Condition(e) ELSE "other"

\* C19: the extractor raises not-found for an absent object, service-unavailable
\* (503) for a connection failure, a generic error (500) for any other failure
\* of the fetch, and an extraction error for a document that is empty, corrupt
\* or encrypted; the orchestrator answers each with status=error, and the
\* messages of two failures of different kinds (not-found, extraction error,
\* other) differ.
C19_ExtractionFailuresDistinct ==
    /\ \A r \in Reqs :
          ExtractionFailed(r)
          => LET f == answers[r].fetch[1]
                 e == caught[r][1]
             IN  /\ f = "NoSuchKey" => Condition(e) = "not-found"
                 /\ f = "MinioException" => Condition(e) = "service-unavailable"
                 /\ f \in {"S3Error", "OtherException", "ReadError"}
                    => Condition(e) = "generic-error" /\ e.type = "HTTPException"
                 /\ f = "none"
                    => /\ Condition(e) = "extraction-error"
                       /\ LET doc == bucket[object_name[r][1]]
                          IN  \/ doc.size = 0
                              \/ doc.kind = "corrupt"
                              \/ doc.encryption \in {"password", "unsupported"}
                 /\ response[r] # None
                 /\ IsErrorResponse(response[r][1])
    /\ \A r, q \in Reqs :
          (ExtractionFailed(r) /\ ExtractionFailed(q)
           /\ Kind(caught[r][1]) # Kind(caught[q][1]))
          => /\ response[r][1].body[1].error_message # response[q][1].body[1].error_message
             /\ Head(response[r][1].body[1].error_message[1])
                # Head(response[q][1].body[1].error_message[1])

C19_Witness ==
    /\ \E r \in Reqs :
          /\ ExtractionFailed(r)
          /\ answers[r].fetch = Some("NoSuchKey")
          /\ Head(response[r][1].body[1].error_message[1])
             = "Failed to find stored PDF for extraction: "
    /\ \E r \in Reqs :
          /\ ExtractionFailed(r)
          /\ answers[r].fetch = Some("MinioException")
          /\ caught[r][1].status_code = 503
          /\ Head(response[r][1].body[1].error_message[1])
             = "Storage error during extraction: "

\* what request r, handled alone with the upload and the answers of the
\* backends it had, stores, extracts and responds
SoloStore(r) == store_file(r, filename[r], file_content[r][1], answers[r].store[1])

SoloBucket(r) == put_object([n \in {} |-> None], SoloStore(r).name, file_content[r][1])

SoloExtract(r) ==
    extract_text_from_pdf(basename(SoloStore(r).storage_path[1]), SoloBucket(r),
                          answers[r].fetch[1])

SoloResponse(r) ==
    LET temp_document_id == uuid4(r, "temp")
        document_id == uuid4(r, "object")
    IN  IF ~AllowedFileType(filename[r])
          THEN Returned(ErrorResult(temp_document_id,
                                    <<"Invalid file type. Only pdf files are allowed.">>))
        ELSE IF file_content[r] = None
          THEN Returned(ErrorResult(temp_document_id,
                                    <<"Error reading uploaded file: ">> \o <<"ReadError">>))
        ELSE IF FileTooLarge(file_content[r][1].size)
          THEN Returned(ErrorResult(temp_document_id, FILE_TOO_LARGE_MESSAGE))
        ELSE IF SoloStore(r).raised # None
          THEN StoreExceptionResponse(r, SoloStore(r).raised[1])
        ELSE IF SoloExtract(r).raised # None
          THEN ExtractExceptionResponse(r, SoloExtract(r).raised[1])
        ELSE IF SoloExtract(r).text[1] = <<>>
          THEN Returned(NoTextResult(document_id))
        ELSE IF ai_processor_service = "None"
          THEN Returned(ErrorResult(document_id,
                  <<"AI processing service is not available (configuration error?). Check server logs.">>))
        ELSE Returned(process_content(document_id, answers[r].llm[1]))

\* what of the state belongs to request r
Own(r) == <<stage[r], filename[r], file_content[r], object_name[r], extracted_text[r],
            caught[r], response[r], calls[r], answers[r], ai_result[r]>>

\* C20: however the steps of the requests interleave, the objects of two
\* requests have different names and each holds the bytes of its own upload;
\* the text a request extracted is the text of its own object; the response of
\* a request is the response it gives when handled alone with the same upload
\* and the same answers of the backends; and a step of one request changes
\* nothing of another request, nor the object another request stored.
C20_RequestsIndependent ==
    /\ [](\A r \in Reqs :
            /\ \A q \in Reqs \ {r} :
                  (object_name[r] # None /\ object_name[q] # None)
                  => object_name[r] # object_name[q]
            /\ object_name[r] # None
               => /\ object_name[r][1] = SoloStore(r).name
                  /\ bucket[object_name[r][1]] = file_content[r][1]
            /\ extracted_text[r] # None => extracted_text[r] = SoloExtract(r).text
            /\ response[r] # None => response[r][1] = SoloResponse(r))
    /\ [][\A r \in Reqs :
            stage'[r] = stage[r]
            => /\ Own(r)' = Own(r)
               /\ object_name[r] # None
                  => bucket'[object_name[r][1]] = bucket[object_name[r][1]]]_vars

\* both requests stored an upload of the same name, and each extracted the
\* text of its own document
C20_Witness ==
    /\ filename["r1"] = filename["r2"]
    /\ object_name["r1"] # None
    /\ object_name["r2"] # None
    /\ file_content["r1"] # file_content["r2"]
    /\ extracted_text["r1"] = Some(<<"A">>)
    /\ extracted_text["r2"] = Some(<<"A", "\n", "\n", "B">>)
    /\ stage["r1"] = "DONE"
    /\ stage["r2"] = "ERROR"
    /\ calls["r2"].llm = 1

\* the results request r has produced: the one process_content returned and
\* the one sent to the caller
Results(r) ==
    (IF response[r] # None /\ response[r][1].body # None
     THEN {response[r][1].body[1]} ELSE {})
    \cup (IF ai_result[r] # None THEN {ai_result[r][1]} ELSE {})

\* C21: no result with status=error, from whichever stage, carries a
\* structured output; a result that carries one has status=success.
C21_OutputOnlyOnSuccess ==
    \A r \in Reqs :
        \A res \in Results(r) :
            /\ res.status = "error" => res.ai_structured_output = None
            /\ res.ai_structured_output # None => res.status = "success"

\* one request ended with a completion that is not JSON, the other with a
\* parsed structured output
C21_Witness ==
    /\ \E r \in Reqs :
          /\ stage[r] = "ERROR"
          /\ answers[r].llm # None
          /\ answers[r].llm[1].content = <<"x">>
          /\ response[r][1].body[1].ai_structured_output = None
    /\ \E r \in Reqs :
          /\ stage[r] = "DONE"
          /\ response[r][1].body[1].ai_structured_output = Some(<<"[", "1", "]">>)

----------------------------------------------------------------------------
(* process_content on bounded completions: the completion is the inner      *)
(* content, alone or wrapped in a fence with whitespace around it            *)

MaxPieces == 3

\* a text longer than the prefix the parse error message quotes
LongText == [i \in 1..(ERROR_PREFIX_LEN + 1) |-> "x"]

Pieces == {FENCE, <<"j", "s", "o", "n">>, <<" ">>, <<"1">>, <<"[">>, <<"]">>, <<"x">>, LongText}

RECURSIVE Concat(_)
Concat(parts) == IF parts = <<>> THEN <<>> ELSE Head(parts) \o Concat(Tail(parts))

Inners == {Concat(parts) : parts \in UNION {[1..n -> Pieces] : n \in 0..MaxPieces}}

Fences == {"none", "json", "bare"}

NoPad == [outer |-> <<>>, around |-> <<>>]
Pads == {NoPad, [outer |-> <<>>, around |-> <<"\n">>], [outer |-> <<" ">>, around |-> <<"\n">>]}

\* the completion the LLM returns: c itself, or c between a leading fence
\* (with or without the json tag) and a trailing fence
Completion(c, f, p) ==
    IF f = "none" THEN c
    ELSE p.outer \o (IF f = "json" THEN FENCE_JSON ELSE FENCE) \o p.around
         \o c \o p.around \o FENCE \o p.outer

DOC == "uuid-2"

Completed(content) == [raised |-> None, content |-> content]

ProcessContent ==
    /\ ai_response = None
    /\ ai_response' = Some(process_content(DOC, Completed(Completion(inner, fence, pad))))
    /\ UNCHANGED <<inner, fence, pad>>
    /\ UNCHANGED <<pipelineVars, routeVars, bucketVars>>

InitClean ==
    /\ inner \in Inners
    /\ fence \in Fences
    /\ pad \in (IF fence = "none" THEN {NoPad} ELSE Pads)
    /\ ai_response = None
    /\ IdlePipeline
    /\ ai_processor_service = "AIProcessorService"
    /\ GOOGLE_API_KEY = Some(<<"k">>)
    /\ IdleRoute
    /\ IdleBucket

NextClean == ProcessContent

SpecClean == InitClean /\ [][NextClean]_vars

\* what process_content answers when the completion is c itself
Direct(c) == process_content(DOC, Completed(c))

\* C4 as claimed: for every inner content c, the status and the structured
\* output of a fenced completion equal those of the completion c itself.
C4_FenceTransparent_AnyInner ==
    (fence # "none" /\ ai_response # None)
    => /\ ai_response[1].status = Direct(inner).status
       /\ ai_response[1].ai_structured_output = Direct(inner).ai_structured_output

\* c carries no fence of its own, and is not read as the json tag of a bare
\* fence written right before it
PlainInner(c, f, p) ==
    /\ ~startswith(strip(c), FENCE)
    /\ ~endswith(strip(c), FENCE)
    /\ (f = "bare" /\ p.around = <<>>) => ~startswith(c, <<"j", "s", "o", "n">>)

\* C4 amended: for every inner content c that neither starts nor ends (after
\* whitespace) with a fence and that does not start with "json" right after a
\* bare fence, the status and the structured output of the fenced completion
\* equal those of the completion c itself.
C4_FenceTransparent ==
    (fence # "none" /\ ai_response # None /\ PlainInner(inner, fence, pad))
    => /\ ai_response[1].status = Direct(inner).status
       /\ ai_response[1].ai_structured_output = Direct(inner).ai_structured_output

C4_Witness ==
    /\ fence = "bare"
    /\ pad.around = <<"\n">>
    /\ inner = <<"[", "1", "]">>
    /\ ai_response # None
    /\ ai_response[1].status = "success"
    /\ ai_response[1].ai_structured_output = Some(<<"[", "1", "]">>)

\* json.loads accepts the text: it is, between optional whitespace, a number or
\* an array of the alphabet
RECURSIVE IsJsonValue(_)
IsJsonValue(t) ==
    \/ (t # <<>> /\ \A i \in 1..Len(t) : t[i] = "1")
    \/ /\ Len(t) >= 2
       /\ t[1] = "["
       /\ t[Len(t)] = "]"
       /\ LET body == strip(SubSeq(t, 2, Len(t) - 1))
          IN  body = <<>> \/ IsJsonValue(body)

\* C5: when the completion, stripped of whitespace and fences, is not valid
\* JSON, the result has status=error, no structured output, and an error
\* message that names the parse failure and quotes the first min(100, length)
\* characters of the cleaned text.
C5_InvalidJsonIsError ==
    LET cleaned == clean_json_string(strip(Completion(inner, fence, pad)))
        quoted == Prefix(cleaned, 100)
    IN  (ai_response # None /\ ~IsJsonValue(cleaned))
        => /\ ai_response[1].status = "error"
           /\ ai_response[1].ai_structured_output = None
           /\ ai_response[1].error_message # None
           /\ LET msg == ai_response[1].error_message[1]
              IN  /\ msg[1] = "AI model response was not valid JSON. Parse Error: "
                  /\ Len(msg) = Len(quoted) + 4
                  /\ SubSeq(msg, 4, Len(msg) - 1) = quoted

C5_Witness ==
    /\ inner = LongText
    /\ fence = "json"
    /\ ai_response # None
    /\ ai_response[1].status = "error"
    /\ Len(ai_response[1].error_message[1]) = ERROR_PREFIX_LEN + 4

----------------------------------------------------------------------------
(* The routes of the application and the dispatch of a request to a handler *)

Route(method, path, endpoint) == [method |-> method, path |-> path, endpoint |-> endpoint]

\* settings.API_V1_STR, as path segments
API_V1_STR == <<"api", "v1">>

PARAM == "{document_id}"

\* documents.py: the routes of `router`, in the order the decorators register them
router_routes ==
    << Route("POST", <<>>, "upload_document_and_process"),
       Route("GET", <<PARAM>>, "get_document"),
       Route("DELETE", <<PARAM>>, "delete_document"),
       Route("GET", <<"health">>, "health_check") >>

\* main.py: app.include_router(documents.router, prefix=...), then the routes of app
app_routes ==
    [i \in 1..Len(router_routes) |->
        Route(router_routes[i].method,
              API_V1_STR \o <<"documents">> \o router_routes[i].path,
              router_routes[i].endpoint)]
    \o << Route("GET", <<>>, "root"),
          Route("GET", API_V1_STR \o <<"health">>, "health_check") >>

\* the path of a route matches the path of a request: a parameter matches any segment
PathMatches(pattern, path) ==
    /\ Len(pattern) = Len(path)
    /\ \A i \in 1..Len(path) : pattern[i] = PARAM \/ pattern[i] = path[i]

\* the router's choice: the first route whose path and method match, else the
\* first route whose path matches (405), else none (404); 0 stands for no route
FullMatches(routes, method, path) ==
    {i \in 1..Len(routes) : PathMatches(routes[i].path, path) /\ routes[i].method = method}

PartialMatches(routes, method, path) ==
    {i \in 1..Len(routes) : PathMatches(routes[i].path, path)}

Min(S) == CHOOSE x \in S : \A y \in S : x <= y

\* what the store answers to client.bucket_exists: True, False, or an exception
Probes == {"exists", "absent", "S3Error", "MinioException", "OtherException"}

ProbeRaises(probe) == probe \notin {"exists", "absent"}

\* check_health catching the errors of the store only (except S3Error)
check_health_CatchesS3Error(probe) ==
    IF ProbeRaises(probe) /\ probe # "S3Error"
      THEN [raised |-> Some(Exc(probe, FaultMsg(probe))), value |-> FALSE]
    ELSE [raised |-> None, value |-> ~ProbeRaises(probe)]

\* MinioStorageService.check_health, the store answering bucket_exists with
\* probe: the answer of bucket_exists is not looked at, True is returned
\* unless bucket_exists raised
check_health(probe) == [raised |-> None, value |-> ~ProbeRaises(probe)]

Answer(endpoint, status_code, status, dependencies) ==
    [endpoint |-> endpoint, status_code |-> status_code, status |-> status,
     dependencies |-> dependencies]

\* what FastAPI sends when an exception leaves `endpoint`
ServerError(endpoint) == Answer(endpoint, 500, "", <<>>)

\* documents.py: health_check
health_check(probe) ==
    LET probed == check_health(probe)
        minio_healthy == probed.value
        minio_status == IF minio_healthy THEN "healthy" ELSE "unhealthy"
        ai_service_status == IF ai_processor_service # "None" THEN "healthy" ELSE "unavailable"
        overall_status == IF ~minio_healthy \/ ai_processor_service = "None"
                          THEN "degraded" ELSE "ok"
    IN  IF probed.raised # None THEN ServerError("health_check")
        ELSE Answer("health_check", 200, overall_status,
                    << <<"storage (minio)", minio_status>>,
                       <<"ai_service (gemini)", ai_service_status>> >>)

\* documents.py: get_document and delete_document, behind the validation of
\* the path parameter document_id: UUID
document_placeholder(endpoint, path) ==
    IF UUID(<<path[Len(path)]>>) = None
      THEN Answer(endpoint, 422, "", <<>>)     \* document_id is not a UUID
    ELSE Answer(endpoint, 501, "", <<>>)       \* HTTPException(501)

\* the application answering a request
Dispatch(method, path, probe) ==
    LET full == FullMatches(app_routes, method, path)
        partial == PartialMatches(app_routes, method, path)
    IN  IF full # {}
          THEN LET endpoint == app_routes[Min(full)].endpoint
               IN  CASE endpoint = "health_check" -> health_check(probe)
                     [] endpoint \in {"get_document", "delete_document"} ->
                            document_placeholder(endpoint, path)
                     [] OTHER -> Answer(endpoint, 200, "", <<>>)
        ELSE IF partial # {} THEN Answer("", 405, "", <<>>)
        ELSE Answer("", 404, "", <<>>)

MaxHttpLog == 2

Methods == {"GET", "DELETE"}

Paths ==
    { <<>>,
      API_V1_STR \o <<"health">>,
      API_V1_STR \o <<"documents">>,
      API_V1_STR \o <<"documents", "health">>,
      API_V1_STR \o <<"documents", "uuid-1">>,
      API_V1_STR \o <<"documents", "uuid-1", "health">> }

HandleRequest ==
    /\ Len(http_log) < MaxHttpLog
    /\ \E method \in Methods, path \in Paths, probe \in Probes :
          LET answer == Dispatch(method, path, probe)
          IN  http_log' = Append(http_log,
                                 [method |-> method, path |-> path,
                                  probe |-> IF answer.endpoint = "health_check"
                                            THEN probe ELSE "none",
                                  answer |-> answer])
    /\ UNCHANGED <<pipelineVars, cleanVars, bucketVars>>

InitRoute == IdlePipeline /\ IdleClean /\ IdleBucket /\ http_log = <<>>

NextRoute == HandleRequest

SpecRoute == InitRoute /\ [][NextRoute]_vars

\* C8: every GET of /documents/health (under the prefix of the router) is
\* answered by health_check, with status ok or degraded and the health of the
\* storage backend and of the AI backend among the dependencies.
C8_HealthRouteAnswered ==
    \A i \in 1..Len(http_log) :
        (http_log[i].method = "GET"
         /\ http_log[i].path = API_V1_STR \o <<"documents", "health">>)
        => /\ http_log[i].answer.endpoint = "health_check"
           /\ http_log[i].answer.status \in {"ok", "degraded"}
           /\ Len(http_log[i].answer.dependencies) = 2

\* the entries of the log that health_check answered
HealthEntries == {i \in 1..Len(http_log) : http_log[i].answer.endpoint = "health_check"}

StorageHealth(entry) == entry.answer.dependencies[1][2]

\* C14: check_health never raises and returns false whenever the probe of
\* the store raised, whatever the exception: the health endpoint answers 200
\* and reports the storage unhealthy then; and it reports status ok exactly
\* when check_health returned true and the AI processor was constructed,
\* otherwise degraded.
C14_HealthNeverRaises ==
    \A i \in HealthEntries :
        LET entry == http_log[i]
        IN  /\ entry.answer.status_code = 200
            /\ check_health(entry.probe).raised = None
            /\ ProbeRaises(entry.probe)
               => /\ ~check_health(entry.probe).value
                  /\ StorageHealth(entry) = "unhealthy"
            /\ entry.answer.status \in {"ok", "degraded"}
            /\ entry.answer.status = "ok"
               <=> (check_health(entry.probe).value /\ ai_processor_service # "None")

C14_Witness ==
    /\ ai_processor_service # "None"
    /\ Len(http_log) = 2
    /\ http_log[1].probe = "OtherException"
    /\ http_log[1].answer.status = "degraded"
    /\ http_log[2].probe = "exists"
    /\ http_log[2].answer.status = "ok"

\* C15: check_health returns true only when the store is reachable and the
\* configured bucket exists: the health endpoint reports the storage healthy
\* only if bucket_exists answered True, and unhealthy when it answered False.
C15_HealthyOnlyIfBucketExists ==
    \A i \in HealthEntries :
        /\ check_health(http_log[i].probe).value => http_log[i].probe = "exists"
        /\ StorageHealth(http_log[i]) = "healthy" => http_log[i].probe = "exists"

C15_Reached ==
    \E i \in HealthEntries : http_log[i].probe = "absent"

----------------------------------------------------------------------------
(* _ensure_bucket_exists called by the service instances, one call after     *)
(* another, on a store that holds or does not hold the bucket                *)

MaxEnsureCalls == 3

\* the MinioStorageService instances: the singleton of each process
Instances == {"s1", "s2"}

\* the objects a bucket that exists may hold before the calls
StoredBefore == <<"uuid-2", ".", "p", "d", "f">> :> Bytes(1, "pdf", "none", <<Some(TextA)>>)

EnsureBucket ==
    /\ Len(ensure_log) < MaxEnsureCalls
    /\ \E i \in Instances, fault \in EnsureFaults :
          LET out == ensure_bucket_exists(buckets, fault)
          IN  /\ buckets' = out.buckets
              /\ ensure_log' = Append(ensure_log,
                                      [instance |-> i, fault |-> fault,
                                       buckets |-> buckets, objects |-> bucket,
                                       raised |-> out.raised])
    /\ UNCHANGED <<pipelineVars, cleanVars, routeVars>>

InitBucket ==
    /\ buckets \in SUBSET {MINIO_BUCKET_NAME, "other"}
    /\ bucket \in (IF MINIO_BUCKET_NAME \in buckets
                    THEN {[n \in {} |-> None], StoredBefore}
                    ELSE {[n \in {} |-> None]})
    /\ ensure_log = <<>>
    /\ IdleRequests
    /\ IdleClean
    /\ IdleRoute

NextBucket == EnsureBucket

SpecBucket == InitBucket /\ [][NextBucket]_vars

\* the buckets and the objects of the store when call i of the log had returned
BucketsAfter(i) == IF i < Len(ensure_log) THEN ensure_log[i + 1].buckets ELSE buckets
ObjectsAfter(i) == IF i < Len(ensure_log) THEN ensure_log[i + 1].objects ELSE bucket

\* C16: every call of _ensure_bucket_exists the store answers, by whichever
\* instance and after whichever earlier calls, succeeds and leaves the store
\* with the configured bucket added to the buckets it held, which is no
\* change when the bucket was there; no call changes the objects stored, and
\* a call the store fails changes nothing.
C16_EnsureBucketIdempotent ==
    \A i \in 1..Len(ensure_log) :
        LET call == ensure_log[i]
        IN  /\ call.fault = "none"
               => /\ call.raised = None
                  /\ BucketsAfter(i) = call.buckets \cup {MINIO_BUCKET_NAME}
            /\ (call.fault = "none" /\ MINIO_BUCKET_NAME \in call.buckets)
               => BucketsAfter(i) = call.buckets
            /\ call.fault # "none" => BucketsAfter(i) = call.buckets
            /\ ObjectsAfter(i) = call.objects
            /\ (i > 1 /\ ensure_log[i - 1].raised = None)
               => MINIO_BUCKET_NAME \in call.buckets

\* the bucket is created by the first call, and calls of both instances
\* follow it
C16_Witness ==
    /\ Len(ensure_log) = 3
    /\ ensure_log[1].buckets = {"other"}
    /\ \A i \in 1..3 : ensure_log[i].fault = "none" /\ ensure_log[i].raised = None
    /\ ensure_log[1].instance = "s1"
    /\ ensure_log[2].instance = "s2"
    /\ ensure_log[3].instance = "s1"
    /\ buckets = {"other", MINIO_BUCKET_NAME}

====
